---------------------------- MODULE Spec2Model ----------------------------
(***************************************************************************)
(* Token-bucket rate limiter of rate_limiter.go: the visitor store behind  *)
(* its RWMutex, the per-Visitor mutexes, concurrent Allow callers and the  *)
(* background cleanupVisitors goroutine.  Time is a discrete clock; one    *)
(* unit stands for an arbitrary fixed duration.                            *)
(*                                                                         *)
(* A section that takes one lock, reads, and releases it is one step whose *)
(* guard is that the lock can be taken (a read lock: no writer holds       *)
(* rl.mu).  A lock is a held value of the state wherever the holder goes   *)
(* on to wait for something else or to write: the write lock of rl.mu in   *)
(* Allow and in the sweeper's delete step, the Visitor mutex in Allow.     *)
(***************************************************************************)
EXTENDS Integers, Sequences, FiniteSets, TLC

(* ------------------------------ bounds -------------------------------- *)
MaxTime == 6
MaxTimeSweep == 3
MaxCapacity == 2
RaceCapacity == 1
MaxClientsBound == 1
Rate == 3
StaleAfter == 2
CleanupBatchSize == 1
MaxStarts == 2
MaxPasses == 2

Procs == {"p1", "p2"}
Sweeper == "sweeper"
None == "none"

\* Client keys handed to Allow, as sequences of characters.
Inputs == { <<>>, <<" ">>, <<"a">>, <<"b">> }
NoIp == <<"-">>
Whitespace == {" ", "\t", "\n", "\r"}

Nil == 0
MaxVisitors == Cardinality(Inputs) + Cardinality(Procs) + 1
Vids == 1..MaxVisitors

VARIABLES
  now,            \* the clock read by time.Now()
  capacity,       \* rl.capacity
  maxClients,     \* rl.maxClients
  visitors,       \* rl.visitors: key -> Visitor reference (Nil = absent)
  heap,           \* the Visitor objects: tokens, lastToken, mu
  mu,             \* rl.mu: the task holding the write lock
  pc, ip, v, ret, \* per Allow caller: position, argument, local visitor, result
  spc,            \* sweeper position
  cleanupOnce,    \* rl.cleanupOnce has fired
  ctxDone,        \* rl.ctx is cancelled
  tickC,          \* ticker.C holds a tick (channel of capacity 1)
  cutoff,         \* sweeper local: cutoff of the current tick
  batch,          \* sweeper local: keys of the batch still to inspect
  cleanupCursor,  \* rl.cleanupCursor
  sv,             \* sweeper local: v / vv
  hist,           \* history per Visitor: last call instant and grants at it
  quiet,          \* history: keys stale at the tick, in its batch, not called since
  watch,          \* the keys whose Visitors' history is recorded
  audit,          \* the keys whose Visitors' ledger is kept
  visitorStaleAfter, \* rl.visitorStaleAfter
  cleanupBatchSize,  \* rl.cleanupBatchSize
  cover,          \* history: the keys the sweeper's batches took since the key set last changed
  ledger,         \* history per Visitor: creation instant, grants, calls of the last instant
  starts,         \* StartCleanup calls the environment has still to make
  started,        \* cleanupVisitors goroutines started so far
  afterCancel,    \* history: sweep passes begun after the context was cancelled
  cfg,            \* the arguments of NewRateLimiter / the RateLimiterConfig
  built,          \* what construction returned: "none" before it, "limiter", "handler", "error"
  rateNs,         \* rl.rate in nanoseconds, as base-1000 digits (most significant first)
  req,            \* the request the middleware handler is serving
  trusted,        \* cfg.TrustedProxyHeader is non-empty
  clientIP,       \* handler local: the resolved client key
  hpc,            \* handler position
  status          \* the response: status code (0: none yet), Retry-After, calls of next

vars == << now, capacity, maxClients, visitors, heap, mu, pc, ip, v, ret,
           spc, cleanupOnce, ctxDone, tickC, cutoff, batch, cleanupCursor, sv,
           hist, quiet, watch, audit, visitorStaleAfter, cleanupBatchSize, cover,
           ledger, starts, started, afterCancel,
           cfg, built, rateNs, req, trusted, clientIP, hpc, status >>

(* ----------------------------- helpers -------------------------------- *)
\* Go integer division truncates toward zero.
GoDiv(a, b) == IF a >= 0 THEN a \div b ELSE -((-a) \div b)

RECURSIVE TrimLeft(_)
TrimLeft(s) == IF s # <<>> /\ Head(s) \in Whitespace THEN TrimLeft(Tail(s)) ELSE s

RECURSIVE TrimRight(_)
TrimRight(s) ==
  IF s # <<>> /\ s[Len(s)] \in Whitespace THEN TrimRight(SubSeq(s, 1, Len(s) - 1)) ELSE s

\* strings.TrimSpace
TrimSpace(s) == TrimRight(TrimLeft(s))

IsBlankNoTrim(s) == s = <<>>
\* strings.TrimSpace(ip) == ""
IsBlank(s) == TrimSpace(s) = <<>>

LookupAny(m, k) ==
  IF \E x \in DOMAIN m : m[x] # Nil
  THEN m[CHOOSE x \in DOMAIN m : m[x] # Nil /\ \A y \in DOMAIN m : m[y] # Nil => m[x] <= m[y]]
  ELSE Nil
LookupMiss(m, k) == Nil
\* rl.visitors[ip]
Lookup(m, k) == m[k]

StoreKeys == {k \in DOMAIN visitors : visitors[k] # Nil}

CapReachedOffByOne(n, max) == max > 0 /\ n > max
CapReachedEarly(n, max) == max > 0 /\ n + 1 >= max
\* rl.maxClients > 0 && len(rl.visitors) >= rl.maxClients
CapReached(n, max) == max > 0 /\ n >= max

NewVisitorTokensFull(cap) == cap
\* tokens: rl.capacity - 1
NewVisitorTokens(cap) == cap - 1

TokensToAddEarly(elapsed, rate, cap) ==
  LET t == IF rate > 0 THEN GoDiv(elapsed + 1, rate) ELSE 0
  IN  IF t > cap THEN cap ELSE t
TokensToAddLate(elapsed, rate, cap) ==
  LET t == IF rate > 0 THEN GoDiv(elapsed - 1, rate) ELSE 0
  IN  IF t > cap THEN cap ELSE t
\* tokensToAdd64 after the defensive cap
TokensToAdd(elapsed, rate, cap) ==
  LET t == IF rate > 0 THEN GoDiv(elapsed, rate) ELSE 0
  IN  IF t > cap THEN cap ELSE t

RefillOverdraw(vis, t, rate, cap) ==
  LET elapsed == t - vis.lastToken
      add     == TokensToAdd(elapsed, rate, cap)
      tok1    == IF add > 0
                 THEN (IF vis.tokens + add > cap THEN cap ELSE vis.tokens + add)
                 ELSE vis.tokens
      last1   == IF add > 0 THEN vis.lastToken + add * rate ELSE vis.lastToken
  IN  [tokens    |-> tok1 - 1,
       lastToken |-> last1,
       ok        |-> tok1 > 0]
\* The same with the refill clock set to the instant of every call.
RefillRestartsClock(vis, t, rate, cap) ==
  LET elapsed == t - vis.lastToken
      add     == TokensToAdd(elapsed, rate, cap)
      tok1    == IF add > 0
                 THEN (IF vis.tokens + add > cap THEN cap ELSE vis.tokens + add)
                 ELSE vis.tokens
  IN  [tokens    |-> IF tok1 > 0 THEN tok1 - 1 ELSE tok1,
       lastToken |-> t,
       ok        |-> tok1 > 0]
\* The refill-and-consume step on one Visitor: its new fields and the result.
Refill(vis, t, rate, cap) ==
  LET elapsed == t - vis.lastToken
      add     == TokensToAdd(elapsed, rate, cap)
      tok1    == IF add > 0
                 THEN (IF vis.tokens + add > cap THEN cap ELSE vis.tokens + add)
                 ELSE vis.tokens
      last1   == IF add > 0 THEN vis.lastToken + add * rate ELSE vis.lastToken
  IN  [tokens    |-> IF tok1 > 0 THEN tok1 - 1 ELSE tok1,
       lastToken |-> last1,
       ok        |-> tok1 > 0]

After(t, u) == t > u
\* time.Time.Before
Before(t, u) == t < u

FreeVisitor == [tokens |-> 0, lastToken |-> 0, mu |-> None]
FreeHist == [callAt |-> 0, granted |-> 0, fresh |-> FALSE]
FreeLedger == [born |-> 0, total |-> 0, at |-> 0, served |-> 0, won |-> 0, tok0 |-> 0]

\* Visitor objects some reference still reaches.
Refs(vs, vp, s) ==
  ({vs[k] : k \in DOMAIN vs} \cup {vp[p] : p \in Procs} \cup {s}) \ {Nil}

\* The Go runtime reclaims unreachable Visitors.
Collect(h, vs, vp, s) ==
  [i \in Vids |-> IF i \in Refs(vs, vp, s) THEN h[i] ELSE FreeVisitor]
CollectHist(h, vs, vp, s) ==
  [i \in Vids |-> IF i \in Refs(vs, vp, s) THEN h[i] ELSE FreeHist]
CollectLedger(h, vs, vp, s) ==
  [i \in Vids |-> IF i \in Refs(vs, vp, s) THEN h[i] ELSE FreeLedger]

NewVid == CHOOSE i \in Vids \ Refs(visitors, v, sv) :
            \A j \in Vids \ Refs(visitors, v, sv) : i <= j

Saturate(n) == IF n > MaxCapacity + 1 THEN MaxCapacity + 1 ELSE n

\* History of a Visitor after a call served at instant t with result ok.
Served(h, t, ok) ==
  IF t = h.callAt
  THEN [h EXCEPT !.granted = Saturate(h.granted + (IF ok THEN 1 ELSE 0))]
  ELSE [callAt |-> t, granted |-> IF ok THEN 1 ELSE 0, fresh |-> FALSE]

SaturateTotal(n) ==
  IF n > MaxCapacity + MaxTime \div Rate + 1 THEN MaxCapacity + MaxTime \div Rate + 1 ELSE n

\* Ledger of a Visitor created at instant t holding left tokens after its creating call.
Opened(t, left) ==
  [born |-> t, total |-> 1, at |-> t, served |-> 0, won |-> 0, tok0 |-> left]

\* Ledger of a Visitor after a call served at instant t with result ok that left it
\* with left tokens: the grants in all, and at this instant the calls served, the
\* grants, and the tokens the first of them found after its refill.
Booked(l, t, ok, left) ==
  LET b == IF ok THEN 1 ELSE 0 IN
  IF t = l.at
  THEN [l EXCEPT !.total = SaturateTotal(@ + b), !.served = Saturate(@ + 1),
                 !.won = Saturate(@ + b)]
  ELSE [l EXCEPT !.total = SaturateTotal(@ + b), !.at = t, !.served = 1, !.won = b,
                 !.tok0 = left + b]

\* All orderings of a set of keys (Go map iteration order is unspecified).
Perms(S) ==
  {f \in [1..Cardinality(S) -> S] : \A i, j \in 1..Cardinality(S) : f[i] = f[j] => i = j}

(* ------------------------------- Init --------------------------------- *)
NoCfg == [rpm |-> 0, ctxNil |-> FALSE, maxIps |-> 0]
NoRate == <<>>
NoReq == [remote |-> <<>>, entries |-> <<>>, hv |-> <<>>]
NoResponse == [code |-> 0, retryAfter |-> 0, next |-> 0]

SweeperStartedAtConstruction == "wait"
\* NewRateLimiter starts no goroutine: "actual goroutine is started via StartCleanup".
SweeperAtConstruction == "off"

\* History of the sweeper's coverage: the key set of the store at the first snapshot
\* since it last changed, the keys the batches took since then and the number of
\* those snapshots, up to the number of ticks a full round takes.
NoCover == [on |-> FALSE, keys |-> {}, seen |-> {}, ticks |-> 0]
CoverFrom == [on |-> TRUE, keys |-> {}, seen |-> {}, ticks |-> 0]
Lapse(c) == [c EXCEPT !.keys = {}, !.seen = {}, !.ticks = 0]
CeilDiv(n, size) == (n + size - 1) \div size
RoundTicks(keys, size) == CeilDiv(Cardinality(keys), size)
Covered(c, keys, taken, size) ==
  IF ~c.on THEN c
  ELSE IF c.keys # keys THEN [on |-> TRUE, keys |-> keys, seen |-> taken, ticks |-> 1]
  ELSE IF c.ticks >= RoundTicks(keys, size) THEN c
  ELSE [c EXCEPT !.seen = c.seen \cup taken, !.ticks = c.ticks + 1]

\* The sweeper's settings of the runs that do not vary them.
Tuning ==
  /\ visitorStaleAfter = StaleAfter
  /\ cleanupBatchSize = CleanupBatchSize
  /\ cover = NoCover

Start ==
  /\ now = 0
  /\ visitors = [k \in Inputs |-> Nil]
  /\ heap = [i \in Vids |-> FreeVisitor]
  /\ mu = None
  /\ pc = [p \in Procs |-> "idle"]
  /\ ip = [p \in Procs |-> NoIp]
  /\ v = [p \in Procs |-> Nil]
  /\ ret = [p \in Procs |-> FALSE]
  /\ spc = SweeperAtConstruction
  /\ cleanupOnce = FALSE
  /\ ctxDone = FALSE
  /\ tickC = 0
  /\ cutoff = 0
  /\ batch = <<>>
  /\ cleanupCursor = 0
  /\ sv = Nil
  /\ hist = [i \in Vids |-> FreeHist]
  /\ ledger = [i \in Vids |-> FreeLedger]
  /\ quiet = {}
  /\ started = 0
  /\ afterCancel = 0

\* The limiter as NewRateLimiter returned it, no HTTP handler in front of it.
Limiter ==
  /\ cfg = NoCfg
  /\ built = "limiter"
  /\ rateNs = NoRate
  /\ req = NoReq
  /\ trusted = FALSE
  /\ clientIP = <<>>
  /\ hpc = "none"
  /\ status = NoResponse

\* Concurrent callers and the sweeper.
Init ==
  /\ Start
  /\ Limiter
  /\ capacity \in 1..RaceCapacity
  /\ maxClients \in 0..MaxClientsBound
  /\ watch = {}
  /\ audit = {}
  /\ Tuning
  /\ starts = 1

\* One caller, every Visitor's history recorded.
InitSeq ==
  /\ Start
  /\ Limiter
  /\ capacity \in 1..MaxCapacity
  /\ maxClients \in 0..MaxClientsBound
  /\ watch = Inputs
  /\ audit = {}
  /\ Tuning
  /\ starts = 0

\* One caller and the sweeper, the history of the Visitors of one key recorded.
InitSweep ==
  /\ Start
  /\ Limiter
  /\ capacity \in 1..MaxCapacity
  /\ maxClients \in 0..MaxClientsBound
  /\ watch = {<<"a">>}
  /\ audit = {}
  /\ Tuning
  /\ starts = 1

\* One caller, the sweeper, a context that may be cancelled, several StartCleanup calls.
InitCancel ==
  /\ Start
  /\ Limiter
  /\ capacity \in 1..RaceCapacity
  /\ maxClients \in 0..MaxClientsBound
  /\ watch = {}
  /\ audit = {}
  /\ Tuning
  /\ starts = MaxStarts

sweeperVars == << spc, cleanupOnce, ctxDone, tickC, cutoff, batch, cleanupCursor, sv >>
config == << capacity, maxClients, watch, audit, visitorStaleAfter, cleanupBatchSize >>
life == << starts, started, afterCancel >>
front == << cfg, built, rateNs, req, trusted, clientIP, hpc, status >>

(* ------------------------------ Allow --------------------------------- *)
\* Allow(ip) is entered; a blank key is rejected at once (lines 106-113).
Call(p, k) ==
  /\ pc[p] = "idle"
  /\ ip' = [ip EXCEPT ![p] = k]
  /\ IF IsBlank(k)
     THEN /\ pc' = [pc EXCEPT ![p] = "ret"]
          /\ ret' = [ret EXCEPT ![p] = FALSE]
     ELSE /\ pc' = [pc EXCEPT ![p] = "fast"]
          /\ ret' = ret
  /\ quiet' = quiet \ {k}
  /\ UNCHANGED << now, config, cover, life, front, visitors, heap, mu, v, sweeperVars, hist, ledger >>

\* The lookup without the read lock.
FastReadNoLock(p) ==
  /\ pc[p] = "fast"
  /\ v' = [v EXCEPT ![p] = Lookup(visitors, ip[p])]
  /\ pc' = [pc EXCEPT ![p] = IF v'[p] # Nil THEN "vlock" ELSE "slow"]
  /\ UNCHANGED << now, config, cover, life, front, visitors, heap, mu, ip, ret, sweeperVars, hist, ledger, quiet >>
\* rl.mu.RLock(); visitor, exists = rl.visitors[ip]; rl.mu.RUnlock() (lines 115-119)
FastRead(p) ==
  /\ pc[p] = "fast"
  /\ mu = None
  /\ v' = [v EXCEPT ![p] = Lookup(visitors, ip[p])]
  /\ pc' = [pc EXCEPT ![p] = IF v'[p] # Nil THEN "vlock" ELSE "slow"]
  /\ UNCHANGED << now, config, cover, life, front, visitors, heap, mu, ip, ret, sweeperVars, hist, ledger, quiet >>

\* rl.mu.Lock() (line 121)
SlowLock(p) ==
  /\ pc[p] = "slow"
  /\ mu = None
  /\ mu' = p
  /\ pc' = [pc EXCEPT ![p] = "slowcheck"]
  /\ UNCHANGED << now, config, cover, life, front, visitors, heap, ip, v, ret, sweeperVars, hist, ledger, quiet >>

\* The same with the write lock kept when the double check finds the Visitor.
SlowCheckKeepLock(p) ==
  /\ pc[p] = "slowcheck"
  /\ mu' = IF Lookup(visitors, ip[p]) # Nil THEN p ELSE None
  /\ LET found == Lookup(visitors, ip[p]) IN
     IF found # Nil
     THEN /\ v' = [v EXCEPT ![p] = found]
          /\ pc' = [pc EXCEPT ![p] = "vlock"]
          /\ UNCHANGED << visitors, heap, hist, ledger, ret, cover >>
     ELSE IF CapReached(Cardinality(StoreKeys), maxClients)
     THEN /\ pc' = [pc EXCEPT ![p] = "ret"]
          /\ ret' = [ret EXCEPT ![p] = FALSE]
          /\ UNCHANGED << visitors, heap, hist, ledger, v, cover >>
     ELSE /\ visitors' = [visitors EXCEPT ![ip[p]] = NewVid]
          /\ heap' = [heap EXCEPT ![NewVid] =
                        [tokens |-> NewVisitorTokens(capacity), lastToken |-> now, mu |-> None]]
          /\ hist' = [hist EXCEPT ![NewVid] =
                        IF ip[p] \in watch
                        THEN [callAt |-> now, granted |-> 1, fresh |-> TRUE]
                        ELSE FreeHist]
          /\ ledger' = [ledger EXCEPT ![NewVid] =
                          IF ip[p] \in audit
                          THEN Opened(now, NewVisitorTokens(capacity))
                          ELSE FreeLedger]
          /\ v' = [v EXCEPT ![p] = NewVid]
          /\ pc' = [pc EXCEPT ![p] = "ret"]
          /\ ret' = [ret EXCEPT ![p] = TRUE]
          /\ cover' = Lapse(cover)
  /\ UNCHANGED << now, config, life, front, ip, sweeperVars, quiet >>

\* The double check under the write lock, the cap, the creation (lines 122-140).
SlowCheck(p) ==
  /\ pc[p] = "slowcheck"
  /\ mu' = None
  /\ LET found == Lookup(visitors, ip[p]) IN
     IF found # Nil
     THEN /\ v' = [v EXCEPT ![p] = found]
          /\ pc' = [pc EXCEPT ![p] = "vlock"]
          /\ UNCHANGED << visitors, heap, hist, ledger, ret, cover >>
     ELSE IF CapReached(Cardinality(StoreKeys), maxClients)
     THEN /\ pc' = [pc EXCEPT ![p] = "ret"]
          /\ ret' = [ret EXCEPT ![p] = FALSE]
          /\ UNCHANGED << visitors, heap, hist, ledger, v, cover >>
     ELSE /\ visitors' = [visitors EXCEPT ![ip[p]] = NewVid]
          /\ heap' = [heap EXCEPT ![NewVid] =
                        [tokens |-> NewVisitorTokens(capacity), lastToken |-> now, mu |-> None]]
          /\ hist' = [hist EXCEPT ![NewVid] =
                        IF ip[p] \in watch
                        THEN [callAt |-> now, granted |-> 1, fresh |-> TRUE]
                        ELSE FreeHist]
          /\ ledger' = [ledger EXCEPT ![NewVid] =
                          IF ip[p] \in audit
                          THEN Opened(now, NewVisitorTokens(capacity))
                          ELSE FreeLedger]
          /\ v' = [v EXCEPT ![p] = NewVid]
          /\ pc' = [pc EXCEPT ![p] = "ret"]
          /\ ret' = [ret EXCEPT ![p] = TRUE]
          /\ cover' = Lapse(cover)
  /\ UNCHANGED << now, config, life, front, ip, sweeperVars, quiet >>

\* visitor.mu.Lock() (line 143)
VLock(p) ==
  /\ pc[p] = "vlock"
  /\ heap[v[p]].mu = None
  /\ heap' = [heap EXCEPT ![v[p]].mu = p]
  /\ pc' = [pc EXCEPT ![p] = "crit"]
  /\ UNCHANGED << now, config, cover, life, front, visitors, mu, ip, v, ret, sweeperVars, hist, ledger, quiet >>

\* Refill, consume, and the deferred visitor.mu.Unlock() (lines 144-179).
RefillConsume(p) ==
  /\ pc[p] = "crit"
  /\ LET r == Refill(heap[v[p]], now, Rate, capacity) IN
       /\ heap' = [heap EXCEPT ![v[p]] =
                     [tokens |-> r.tokens, lastToken |-> r.lastToken, mu |-> None]]
       /\ ret' = [ret EXCEPT ![p] = r.ok]
       /\ hist' = [hist EXCEPT ![v[p]] = IF ip[p] \in watch THEN Served(@, now, r.ok) ELSE @]
       /\ ledger' = [ledger EXCEPT ![v[p]] =
                       IF ip[p] \in audit THEN Booked(@, now, r.ok, r.tokens) ELSE @]
  /\ pc' = [pc EXCEPT ![p] = "ret"]
  /\ UNCHANGED << now, config, cover, life, front, visitors, mu, ip, v, sweeperVars, quiet >>

\* Allow has returned; the caller drops its locals.
Return(p) ==
  /\ pc[p] = "ret"
  /\ pc' = [pc EXCEPT ![p] = "idle"]
  /\ ip' = [ip EXCEPT ![p] = NoIp]
  /\ ret' = [ret EXCEPT ![p] = FALSE]
  /\ v' = [v EXCEPT ![p] = Nil]
  /\ heap' = Collect(heap, visitors, v', sv)
  /\ hist' = CollectHist(hist, visitors, v', sv)
  /\ ledger' = CollectLedger(ledger, visitors, v', sv)
  /\ UNCHANGED << now, config, cover, life, front, visitors, mu, sweeperVars, quiet >>

(* ------------------------------ clock --------------------------------- *)
Advance(limit) ==
  /\ now < limit
  /\ now' = now + 1
  /\ UNCHANGED << config, cover, life, front, visitors, heap, mu, pc, ip, v, ret, sweeperVars, hist, ledger,
                  quiet >>

(* ----------------------------- sweeper -------------------------------- *)
callerVars == << pc, ip, v, ret >>

InCall(k) == \E p \in Procs : ip[p] = k /\ pc[p] \notin {"idle", "ret"}

OnceDoAlways(done) == TRUE
\* sync.Once.Do runs its function only on the first call.
OnceDo(done) == ~done

\* rl.cleanupOnce.Do(func() { go rl.cleanupVisitors() }) (lines 245-249)
StartCleanup ==
  /\ starts > 0
  /\ starts' = starts - 1
  /\ IF OnceDo(cleanupOnce)
     THEN /\ cleanupOnce' = TRUE
          /\ spc' = "wait"
          /\ started' = started + 1
     ELSE UNCHANGED << cleanupOnce, spc, started >>
  /\ UNCHANGED << now, config, cover, front, visitors, heap, mu, callerVars, ctxDone, tickC, cutoff,
                  batch, cleanupCursor, sv, hist, ledger, quiet, afterCancel >>

\* Sweep passes begun after the cancellation, counted up to MaxPasses.
PassesAfter(n, done) == IF done /\ n < MaxPasses THEN n + 1 ELSE n

\* The owner of the context cancels it.
Cancel ==
  /\ ~ctxDone
  /\ ctxDone' = TRUE
  /\ UNCHANGED << now, config, cover, life, front, visitors, heap, mu, callerVars, spc, cleanupOnce, tickC,
                  cutoff, batch, cleanupCursor, sv, hist, ledger, quiet >>

\* The ticker puts a tick into ticker.C (line 184); a tick finding the channel full is dropped.
TickerFire ==
  /\ spc \notin {"off", "stopped"}
  /\ tickC = 0
  /\ tickC' = 1
  /\ UNCHANGED << now, config, cover, life, front, visitors, heap, mu, callerVars, spc, cleanupOnce, ctxDone,
                  cutoff, batch, cleanupCursor, sv, hist, ledger, quiet >>

DoneNever(done) == FALSE
\* <-rl.ctx.Done() can be received once the context is cancelled.
DoneReady(done) == done

\* case <-rl.ctx.Done(): return, and the deferred ticker.Stop() (lines 185-190)
SweeperStop ==
  /\ spc = "wait"
  /\ DoneReady(ctxDone)
  /\ spc' = "stopped"
  /\ tickC' = 0
  /\ UNCHANGED << now, config, cover, life, front, visitors, heap, mu, callerVars, cleanupOnce, ctxDone,
                  cutoff, batch, cleanupCursor, sv, hist, ledger, quiet >>

\* case <-ticker.C: cutoff := time.Now().Add(-rl.visitorStaleAfter) (lines 191-192)
TickRecv ==
  /\ spc = "wait"
  /\ tickC = 1
  /\ tickC' = 0
  /\ cutoff' = now - visitorStaleAfter
  /\ spc' = "snap"
  /\ quiet' = {k \in StoreKeys :
                 heap[visitors[k]].lastToken < now - visitorStaleAfter /\ ~InCall(k)}
  /\ afterCancel' = PassesAfter(afterCancel, ctxDone)
  /\ UNCHANGED << now, config, cover, front, starts, started, visitors, heap, mu, callerVars, cleanupOnce,
                  ctxDone, batch, cleanupCursor, sv, hist, ledger >>

\* The ticker fires while the sweeper waits in the select, which takes the tick at once.
Tick ==
  /\ spc = "wait"
  /\ tickC = 0
  /\ cutoff' = now - visitorStaleAfter
  /\ spc' = "snap"
  /\ quiet' = {k \in StoreKeys :
                 heap[visitors[k]].lastToken < now - visitorStaleAfter /\ ~InCall(k)}
  /\ afterCancel' = PassesAfter(afterCancel, ctxDone)
  /\ UNCHANGED << now, config, cover, front, starts, started, visitors, heap, mu, callerVars, cleanupOnce,
                  ctxDone, tickC, batch, cleanupCursor, sv, hist, ledger >>

BatchStartZero(cursor, n) == 0
\* start := cursor % len(ips); end := min(start + batchSize, len(ips)) (lines 208-212)
BatchStart(cursor, n) == cursor % n
BatchEnd(cursor, n, size) ==
  IF BatchStart(cursor, n) + size > n THEN n ELSE BatchStart(cursor, n) + size
\* batch := ips[start:end] (line 213)
BatchOf(ips, cursor, size) ==
  SubSeq(ips, BatchStart(cursor, Len(ips)) + 1, BatchEnd(cursor, Len(ips), size))

SeqToSet(q) == {q[i] : i \in 1..Len(q)}

\* The snapshot of the keys under the read lock, the batch and the cursor (lines 195-214).
Snapshot ==
  /\ spc = "snap"
  /\ mu = None
  /\ IF Cardinality(StoreKeys) = 0
     THEN /\ spc' = "wait"
          /\ batch' = <<>>
          /\ quiet' = {}
          /\ cutoff' = 0
          /\ cover' = Lapse(cover)
          /\ UNCHANGED cleanupCursor
     ELSE \E ips \in Perms(StoreKeys) :
          /\ batch' = BatchOf(ips, cleanupCursor, cleanupBatchSize)
          /\ cleanupCursor' = BatchEnd(cleanupCursor, Len(ips), cleanupBatchSize) % Len(ips)
          /\ cover' = Covered(cover, StoreKeys, SeqToSet(batch'), cleanupBatchSize)
          /\ quiet' = quiet \cap SeqToSet(batch')
          /\ spc' = IF batch' = <<>> THEN "wait" ELSE "lookup"
          /\ cutoff' = IF batch' = <<>> THEN 0 ELSE cutoff
  /\ UNCHANGED << now, config, life, front, visitors, heap, mu, callerVars, cleanupOnce, ctxDone, tickC,
                  sv, hist, ledger >>

\* After one key of the batch: the next key, or back to the select.
NextKey(b) == IF Tail(b) = <<>> THEN "wait" ELSE "lookup"
\* cutoff is a local of one pass of the loop.
NextCutoff(b, c) == IF Tail(b) = <<>> THEN 0 ELSE c

\* rl.mu.RLock(); v := rl.visitors[ip]; rl.mu.RUnlock(); if v == nil { continue } (lines 217-222)
LoopLookup ==
  /\ spc = "lookup"
  /\ mu = None
  /\ LET found == Lookup(visitors, Head(batch)) IN
     IF found = Nil
     THEN /\ batch' = Tail(batch)
          /\ spc' = NextKey(batch)
          /\ cutoff' = NextCutoff(batch, cutoff)
          /\ sv' = Nil
     ELSE /\ sv' = found
          /\ spc' = "peek"
          /\ UNCHANGED << batch, cutoff >>
  /\ UNCHANGED << now, config, cover, life, front, visitors, heap, mu, callerVars, cleanupOnce, ctxDone, tickC,
                  cleanupCursor, hist, ledger, quiet >>

\* v.mu.Lock(); stale := v.lastToken.Before(cutoff); v.mu.Unlock() (lines 223-226)
Peek ==
  /\ spc = "peek"
  /\ heap[sv].mu = None
  /\ IF Before(heap[sv].lastToken, cutoff)
     THEN /\ spc' = "dellock"
          /\ UNCHANGED << batch, cutoff >>
     ELSE /\ spc' = NextKey(batch)
          /\ cutoff' = NextCutoff(batch, cutoff)
          /\ batch' = Tail(batch)
  /\ sv' = Nil
  /\ heap' = Collect(heap, visitors, v, sv')
  /\ hist' = CollectHist(hist, visitors, v, sv')
  /\ ledger' = CollectLedger(ledger, visitors, v, sv')
  /\ UNCHANGED << now, config, cover, life, front, visitors, mu, callerVars, cleanupOnce, ctxDone, tickC,
                  cleanupCursor, quiet >>

\* rl.mu.Lock(); vv, ok := rl.visitors[ip] (lines 227-229)
DelLock ==
  /\ spc = "dellock"
  /\ mu = None
  /\ LET found == Lookup(visitors, Head(batch)) IN
     IF found = Nil
     THEN /\ mu' = mu
          /\ batch' = Tail(batch)
          /\ spc' = NextKey(batch)
          /\ cutoff' = NextCutoff(batch, cutoff)
          /\ sv' = Nil
     ELSE /\ mu' = Sweeper
          /\ sv' = found
          /\ spc' = "delete"
          /\ UNCHANGED << batch, cutoff >>
  /\ UNCHANGED << now, config, cover, life, front, visitors, heap, callerVars, cleanupOnce, ctxDone, tickC,
                  cleanupCursor, hist, ledger, quiet >>

\* vv.mu.Lock(); the re-check; delete; both unlocks (lines 230-236)
Delete ==
  /\ spc = "delete"
  /\ heap[sv].mu = None
  /\ visitors' = IF Before(heap[sv].lastToken, cutoff)
                 THEN [visitors EXCEPT ![Head(batch)] = Nil]
                 ELSE visitors
  /\ mu' = None
  /\ sv' = Nil
  /\ batch' = Tail(batch)
  /\ spc' = NextKey(batch)
  /\ cutoff' = NextCutoff(batch, cutoff)
  /\ heap' = Collect(heap, visitors', v, sv')
  /\ hist' = CollectHist(hist, visitors', v, sv')
  /\ ledger' = CollectLedger(ledger, visitors', v, sv')
  /\ cover' = IF visitors' = visitors THEN cover ELSE Lapse(cover)
  /\ UNCHANGED << now, config, life, front, callerVars, cleanupOnce, ctxDone, tickC,
                  cleanupCursor, quiet >>

(* ---------------------------- specifications -------------------------- *)
SeqProcs == {"p1"}

AllowStep(p) ==
  \/ \E k \in Inputs : Call(p, k)
  \/ FastRead(p)
  \/ SlowLock(p)
  \/ SlowCheck(p)
  \/ VLock(p)
  \/ RefillConsume(p)
  \/ Return(p)

SweepStep ==
  \/ StartCleanup
  \/ Tick
  \/ Snapshot
  \/ LoopLookup
  \/ Peek
  \/ DelLock
  \/ Delete

\* Concurrent callers and the sweeper under a context that is never cancelled.
Next ==
  \/ \E p \in Procs : AllowStep(p)
  \/ SweepStep
  \/ Advance(MaxTimeSweep)

Spec == Init /\ [][Next]_vars

\* One caller, no sweeper started.
NextSeq ==
  \/ \E p \in SeqProcs : AllowStep(p)
  \/ Advance(MaxTime)

SpecSeq == InitSeq /\ [][NextSeq]_vars

\* One caller and the sweeper, the history of one key recorded.
NextSweep ==
  \/ \E p \in SeqProcs : AllowStep(p)
  \/ SweepStep
  \/ Advance(MaxTimeSweep)

SpecSweep == InitSweep /\ [][NextSweep]_vars

\* The sweeper under a context that may be cancelled, with the buffered ticker channel.
NextCancel ==
  \/ \E p \in SeqProcs : AllowStep(p)
  \/ StartCleanup
  \/ Cancel
  \/ TickerFire
  \/ TickRecv
  \/ SweeperStop
  \/ Snapshot
  \/ LoopLookup
  \/ Peek
  \/ DelLock
  \/ Delete
  \/ Advance(MaxTimeSweep)

SpecCancel == InitCancel /\ [][NextCancel]_vars

\* One caller on one key, the sweeper, a context that may be cancelled.
InitStop ==
  /\ Start
  /\ Limiter
  /\ capacity = RaceCapacity
  /\ maxClients = 0
  /\ watch = {}
  /\ audit = {}
  /\ Tuning
  /\ starts = MaxStarts

StopKeys == {<<"a">>}

NextStop ==
  \/ \E p \in SeqProcs :
       \/ \E k \in StopKeys : Call(p, k)
       \/ FastRead(p)
       \/ SlowLock(p)
       \/ SlowCheck(p)
       \/ VLock(p)
       \/ RefillConsume(p)
       \/ Return(p)
  \/ StartCleanup
  \/ Cancel
  \/ TickerFire
  \/ TickRecv
  \/ SweeperStop
  \/ Snapshot
  \/ LoopLookup
  \/ Peek
  \/ DelLock
  \/ Delete
  \/ Advance(MaxTimeSweep)

\* Fair scheduling.  A task holding a lock goes on to release it; a task waiting for
\* a lock that is free again and again eventually gets it (sync.Mutex hands the lock
\* to a starving waiter, a waiting writer of sync.RWMutex blocks new readers); a
\* select that is offered the cancellation again and again eventually takes it (the
\* Go runtime picks among the ready cases at random).
FairStop ==
  /\ InitStop /\ [][NextStop]_vars
  /\ \A p \in SeqProcs : WF_vars(SlowCheck(p)) /\ WF_vars(RefillConsume(p))
  /\ SF_vars(Snapshot) /\ SF_vars(LoopLookup) /\ SF_vars(Peek)
  /\ SF_vars(DelLock) /\ SF_vars(Delete)
  /\ SF_vars(SweeperStop)

\* Concurrent callers on one key.
RaceKeys == {<<"a">>}

RaceStep(p) ==
  \/ \E k \in RaceKeys : Call(p, k)
  \/ FastRead(p)
  \/ SlowLock(p)
  \/ SlowCheck(p)
  \/ VLock(p)
  \/ RefillConsume(p)
  \/ Return(p)

\* Two callers on one key, no sweeper started, the history and the ledger of the
\* key's Visitors kept.
InitPair ==
  /\ Start
  /\ Limiter
  /\ capacity \in 1..MaxCapacity
  /\ maxClients = 0
  /\ watch = RaceKeys
  /\ audit = RaceKeys
  /\ Tuning
  /\ starts = 0

NextPair ==
  \/ \E p \in Procs : RaceStep(p)
  \/ Advance(MaxTime)

SpecPair == InitPair /\ [][NextPair]_vars

\* Two callers on one key and the sweeper.
InitRace ==
  /\ Start
  /\ Limiter
  /\ capacity \in 1..MaxCapacity
  /\ maxClients = 0
  /\ watch = {}
  /\ audit = {}
  /\ Tuning
  /\ starts = 1

NextRace ==
  \/ \E p \in Procs : RaceStep(p)
  \/ SweepStep
  \/ Advance(MaxTime)

SpecRace == InitRace /\ [][NextRace]_vars

\* One caller on one key and the sweeper, with a stale duration of one refill
\* interval or of the time a whole bucket takes to refill.
LongStale == MaxCapacity * Rate
MaxTimeLong == LongStale + 1

InitLong ==
  /\ Start
  /\ Limiter
  /\ capacity \in 1..MaxCapacity
  /\ maxClients = 0
  /\ watch = {}
  /\ audit = {}
  /\ visitorStaleAfter \in {Rate, LongStale}
  /\ cleanupBatchSize = CleanupBatchSize
  /\ cover = NoCover
  /\ starts = 1

NextLong ==
  \/ \E p \in SeqProcs : RaceStep(p)
  \/ SweepStep
  \/ Advance(MaxTimeLong)

SpecLong == InitLong /\ [][NextLong]_vars

\* The batch selection alone (lines 207-214), over snapshots of up to three keys in
\* every iteration order, every cursor a longer snapshot can have left behind and
\* several batch sizes.  The cursor is end % len(ips) of an earlier tick: 0, or the
\* start of that tick plus the batch size.  ips, the snapshot, is held in batch until
\* the batch is cut from it; cover records the keys of the snapshot and of the batch.
MaxCursor == 3
MaxBatch == 3
BatchKeys == { <<"a">>, <<"b">>, <<"c">> }
Snapshots ==
  UNION { {q \in [1..n -> BatchKeys] : \A i, j \in 1..n : q[i] = q[j] => i = j} :
          n \in 1..Cardinality(BatchKeys) }

InitBatch ==
  /\ Limiter
  /\ now = 0
  /\ visitors = [k \in Inputs |-> Nil]
  /\ heap = [i \in Vids |-> FreeVisitor]
  /\ mu = None
  /\ pc = [p \in Procs |-> "idle"]
  /\ ip = [p \in Procs |-> NoIp]
  /\ v = [p \in Procs |-> Nil]
  /\ ret = [p \in Procs |-> FALSE]
  /\ spc = "select"
  /\ cleanupOnce = TRUE
  /\ ctxDone = FALSE
  /\ tickC = 0
  /\ cutoff = 0
  /\ batch \in Snapshots
  /\ cleanupBatchSize \in 1..MaxBatch
  /\ cleanupCursor \in {c \in 0..MaxCursor : c = 0 \/ c >= cleanupBatchSize}
  /\ sv = Nil
  /\ hist = [i \in Vids |-> FreeHist]
  /\ ledger = [i \in Vids |-> FreeLedger]
  /\ quiet = {}
  /\ started = 1
  /\ afterCancel = 0
  /\ capacity = RaceCapacity
  /\ maxClients = 0
  /\ watch = {}
  /\ audit = {}
  /\ visitorStaleAfter = StaleAfter
  /\ cover = CoverFrom
  /\ starts = 0

\* start, end, batch := ips[start:end], rl.cleanupCursor = end % len(ips)
\* (lines 208-214)
SelectBatch ==
  /\ spc = "select"
  /\ batch' = BatchOf(batch, cleanupCursor, cleanupBatchSize)
  /\ cleanupCursor' = BatchEnd(cleanupCursor, Len(batch), cleanupBatchSize) % Len(batch)
  /\ cover' = Covered(cover, SeqToSet(batch), SeqToSet(batch'), cleanupBatchSize)
  /\ spc' = "picked"
  /\ UNCHANGED << now, config, life, front, visitors, heap, mu, callerVars, cleanupOnce, ctxDone, tickC,
                  cutoff, sv, hist, ledger, quiet >>

NextBatch == SelectBatch

SpecBatch == InitBatch /\ [][NextBatch]_vars

\* One caller and the sweeper, the sweeper's coverage of the key set recorded.
InitCover ==
  /\ Start
  /\ Limiter
  /\ capacity = RaceCapacity
  /\ maxClients = 0
  /\ watch = {}
  /\ audit = {}
  /\ visitorStaleAfter = StaleAfter
  /\ cleanupBatchSize = CleanupBatchSize
  /\ cover = CoverFrom
  /\ starts = 1

NextCover ==
  \/ \E p \in SeqProcs : AllowStep(p)
  \/ SweepStep
  \/ Advance(MaxTimeSweep)

SpecCover == InitCover /\ [][NextCover]_vars

\* Two callers on one key and the sweeper under fair scheduling: a task holding a
\* lock goes on to release it (the Go scheduler runs every runnable goroutine); a
\* task waiting for a lock that is free again and again eventually gets it
\* (sync.Mutex hands the lock to a starving waiter; a waiting writer of sync.RWMutex
\* holds back new readers, and the readers waiting at its unlock go before the next
\* writer).
NextFair ==
  \/ \E p \in Procs : RaceStep(p)
  \/ SweepStep
  \/ Advance(MaxTimeSweep)

\* The steps of a call between its entry and its return, and the steps of a sweep
\* pass after its tick.
InAllow(p) ==
  \/ FastRead(p)
  \/ SlowLock(p)
  \/ SlowCheck(p)
  \/ VLock(p)
  \/ RefillConsume(p)

InPass ==
  \/ Snapshot
  \/ LoopLookup
  \/ Peek
  \/ DelLock
  \/ Delete

FairRace ==
  /\ InitRace /\ [][NextFair]_vars
  /\ \A p \in Procs : SF_vars(InAllow(p))
  /\ SF_vars(InPass)

(* --------------------------- construction ----------------------------- *)
\* const defaultRPM, const maxRPM (NewRateLimiter); the default cap of RateLimitMiddleware
DefaultRPM == 30
MaxRPM == 1000000
DefaultMaxClients == 500

\* time.Minute in nanoseconds, 60 * 1000^3, as base-1000 digits.
MinuteNs == << 60, 0, 0, 0 >>
\* time.Nanosecond
Nanosecond == << 0, 0, 0, 1 >>

\* requestsPerMinute handed to the constructors, and cfg.MaxClientIpsPerMinute.
RPMInputs == { -5, -1, 0, 1, 2, 3, 7, 29, 30, 31, 59, 60, 61, 100, 999, 1000, 1001,
               999999, 1000000, 1000001, 2000000 }
MaxIpsInputs == { -1, 0, 1, 2 }

ClampRPMNoUpper(rpm) == IF rpm <= 0 THEN DefaultRPM ELSE rpm
\* requestsPerMinute after the default and the clamp (lines 74-80)
ClampRPM(rpm) ==
  LET r == IF rpm <= 0 THEN DefaultRPM ELSE rpm
  IN  IF r > MaxRPM THEN MaxRPM ELSE r

\* Integer division of a base-1000 number by c, digit by digit: r is the remainder
\* carried into digit i.
RECURSIVE DivFrom(_, _, _, _)
DivFrom(ds, i, r, c) ==
  IF i > Len(ds) THEN << >>
  ELSE LET n == r * 1000 + ds[i]
       IN  << n \div c >> \o DivFrom(ds, i + 1, n % c, c)

IsZero(ds) == \A i \in 1..Len(ds) : ds[i] = 0

RateOfRounded(rpm) ==
  LET q == DivFrom(MinuteNs, 1, 0, rpm)
  IN  IF IsZero(q) THEN Nanosecond ELSE [q EXCEPT ![Len(q)] = (@ \div 10) * 10]
\* rl.rate = time.Minute / time.Duration(requestsPerMinute), never zero (lines 89-94)
RateOf(rpm) ==
  LET q == DivFrom(MinuteNs, 1, 0, rpm)
  IN  IF IsZero(q) THEN Nanosecond ELSE q

CtxNilIgnored(c) == FALSE
\* ctx == nil
CtxIsNil(c) == c

\* cfg.MaxClientIpsPerMinute with its default (lines 382-390)
MaxClientsOf(n) == IF n <= 0 THEN DefaultMaxClients ELSE n

\* Nothing constructed yet.
Unbuilt ==
  /\ cfg \in [rpm : RPMInputs, ctxNil : BOOLEAN, maxIps : MaxIpsInputs]
  /\ built = "none"
  /\ rateNs = NoRate
  /\ capacity = 0
  /\ maxClients = 0
  /\ watch = {}
  /\ audit = {}
  /\ Tuning
  /\ starts = 0
  /\ req = NoReq
  /\ trusted = FALSE
  /\ clientIP = <<>>
  /\ hpc = "none"
  /\ status = NoResponse

InitNew == Start /\ Unbuilt

\* NewRateLimiter(ctx, requestsPerMinute) (lines 66-103)
NewRateLimiter ==
  /\ built = "none"
  /\ IF CtxIsNil(cfg.ctxNil)
     THEN /\ built' = "error"
          /\ UNCHANGED << capacity, rateNs >>
     ELSE /\ built' = "limiter"
          /\ capacity' = ClampRPM(cfg.rpm)
          /\ rateNs' = RateOf(capacity')
  /\ UNCHANGED << now, maxClients, watch, audit, visitorStaleAfter, cleanupBatchSize, cover, life, visitors, heap, mu, callerVars, sweeperVars,
                  hist, ledger, quiet, cfg, req, trusted, clientIP, hpc, status >>

\* RateLimitMiddleware(cfg) up to the return of the handler (lines 381-410): the
\* limiter, its cap, and limiter.StartCleanup().
RateLimitMiddleware ==
  /\ built = "none"
  /\ IF CtxIsNil(cfg.ctxNil)
     THEN /\ built' = "error"
          /\ UNCHANGED << capacity, rateNs, maxClients, cleanupOnce, spc, started, hpc >>
     ELSE /\ built' = "handler"
          /\ capacity' = ClampRPM(cfg.rpm)
          /\ rateNs' = RateOf(capacity')
          /\ maxClients' = MaxClientsOf(cfg.maxIps)
          /\ IF OnceDo(cleanupOnce)
             THEN cleanupOnce' = TRUE /\ spc' = "wait" /\ started' = started + 1
             ELSE UNCHANGED << cleanupOnce, spc, started >>
          /\ hpc' = "idle"
  /\ UNCHANGED << now, watch, audit, visitorStaleAfter, cleanupBatchSize, cover, starts, afterCancel, visitors, heap, mu, callerVars, ctxDone,
                  tickC, cutoff, batch, cleanupCursor, sv, hist, ledger, quiet, cfg, req, trusted,
                  clientIP, status >>

NextNew ==
  \/ NewRateLimiter
  \/ RateLimitMiddleware

SpecNew == InitNew /\ [][NextNew]_vars

(* ----------------------- client identity resolver --------------------- *)
\* Text is a sequence of symbols, each a fixed piece of text:
\*   "a"  203.0.113.5        "b"  198.51.100.7       (IPv4 literals)
\*   "c"  2001:db8::1        "c0" 2001:DB8:0:0::1    (one IPv6 address, two spellings)
\*   ":p" :443               "%z" %eth0              "w" unknown
\*   "[", "]", ",", " " and the tab are themselves.
V4 == {"a", "b"}
V6 == {"c", "c0"}
HasColon == V6 \cup {":p"}

\* Addr.String(): the canonical spelling.
Canon(sym) == IF sym = "c0" THEN "c" ELSE sym

\* netip.ParseAddr followed by Addr.String(); << >> on error.  An IPv4 literal, or
\* an IPv6 literal, which stays one with up to four more groups after it
\* (2001:db8::1:443 is an address).
ParseAddr(s) ==
  IF Len(s) = 1 /\ s[1] \in V4 THEN s
  ELSE IF /\ Len(s) >= 1 /\ Len(s) <= 5 /\ s[1] \in V6
          /\ \A i \in 2..Len(s) : s[i] = ":p"
       THEN [i \in 1..Len(s) |-> Canon(s[i])]
  ELSE << >>

SetMax(S) == CHOOSE x \in S : \A y \in S : y <= x
SetMin(S) == CHOOSE x \in S : \A y \in S : x <= y
Positions(s, from, sym) == {i \in from..Len(s) : s[i] = sym}

\* net.SplitHostPort: [ok, host].  The port starts after the last colon; the last
\* colon of a text whose last colon-bearing symbol is an IPv6 literal lies inside the
\* literal, where every case is an error.
SplitHostPort(s) ==
  LET cols == {i \in 1..Len(s) : s[i] \in HasColon}
      bad  == [ok |-> FALSE, host |-> << >>]
  IN  IF cols = {} THEN bad
      ELSE LET i == SetMax(cols) IN
        IF s[i] # ":p" THEN bad
        ELSE IF s[1] = "["
        THEN LET closes == Positions(s, 1, "]") IN
               IF closes = {} THEN bad
               ELSE LET end == SetMin(closes) IN
                 IF end + 1 # i THEN bad
                 ELSE IF Positions(s, 2, "[") # {} THEN bad
                 ELSE IF Positions(s, end + 1, "]") # {} THEN bad
                 ELSE [ok |-> TRUE, host |-> SubSeq(s, 2, end - 1)]
        ELSE IF \E j \in 1..(i - 1) : s[j] \in HasColon THEN bad
        ELSE IF Positions(s, 1, "[") # {} THEN bad
        ELSE IF Positions(s, 1, "]") # {} THEN bad
        ELSE [ok |-> TRUE, host |-> SubSeq(s, 1, i - 1)]

\* stripPort (lines 340-345)
StripPort(s) == IF SplitHostPort(s).ok THEN SplitHostPort(s).host ELSE s

\* parseIP (lines 349-378)
ParseIP(s) ==
  IF s = << >> THEN << >>
  ELSE LET t == TrimSpace(s) IN
    IF \E i \in 1..Len(t) : t[i] \in Whitespace THEN << >>
    ELSE LET u == IF Len(t) >= 2 /\ t[1] = "[" /\ t[Len(t)] = "]"
                  THEN SubSeq(t, 2, Len(t) - 1) ELSE t
             z == Positions(u, 1, "%z")
             w == IF z # {} THEN SubSeq(u, 1, SetMin(z) - 1) ELSE u
         IN  ParseAddr(w)

\* splitAndTrim (lines 295-319), byte-oriented branch: the scan is at i, the current
\* part began at start.
RECURSIVE SplitFrom(_, _, _, _)
SplitFrom(s, start, i, sep) ==
  IF i > Len(s)
  THEN IF start <= Len(s) /\ TrimSpace(SubSeq(s, start, Len(s))) # << >>
       THEN << TrimSpace(SubSeq(s, start, Len(s))) >>
       ELSE << >>
  ELSE IF s[i] = sep
  THEN (IF TrimSpace(SubSeq(s, start, i - 1)) # << >>
        THEN << TrimSpace(SubSeq(s, start, i - 1)) >> ELSE << >>)
       \o SplitFrom(s, i + 1, i + 1, sep)
  ELSE SplitFrom(s, start, i + 1, sep)

SplitAndTrim(s, sep) == SplitFrom(s, 1, 1, sep)

RECURSIVE LastParsed(_)
LastParsed(parts) ==
  IF parts = << >> THEN << >>
  ELSE IF ParseIP(StripPort(parts[Len(parts)])) # << >>
  THEN ParseIP(StripPort(parts[Len(parts)]))
  ELSE LastParsed(SubSeq(parts, 1, Len(parts) - 1))
\* The loop over the parts of the header (lines 260-265).
RECURSIVE FirstParsed(_)
FirstParsed(parts) ==
  IF parts = << >> THEN << >>
  ELSE IF ParseIP(StripPort(Head(parts))) # << >>
  THEN ParseIP(StripPort(Head(parts)))
  ELSE FirstParsed(Tail(parts))

\* The RemoteAddr branch (lines 278-288).
FromRemote(remote) ==
  LET parsed == ParseIP(TrimSpace(StripPort(remote)))
  IN  IF \E i \in 1..Len(parsed) : parsed[i] \in Whitespace \cup {","} THEN << >> ELSE parsed

GetClientIPHeaderFirst(r, t) ==
  IF r.hv # << >> THEN FirstParsed(SplitAndTrim(r.hv, ",")) ELSE FromRemote(r.remote)
GetClientIPFallback(r, t) ==
  IF t /\ r.hv # << >> /\ FirstParsed(SplitAndTrim(r.hv, ",")) # << >>
  THEN FirstParsed(SplitAndTrim(r.hv, ","))
  ELSE FromRemote(r.remote)
\* getClientIP (lines 254-289); r.hv is r.Header.Get(trustedHeader), t is
\* trustedHeader != "".
GetClientIP(r, t) ==
  IF t
  THEN IF r.hv # << >> THEN FirstParsed(SplitAndTrim(r.hv, ",")) ELSE << >>
  ELSE FromRemote(r.remote)

(* ------------------------- requests and handler ----------------------- *)
MaxEntries == 2

\* Header entries a request may carry, each with the address it denotes (<< >> for
\* none): the texts of the resolver tests and of the forwarded-address convention.
EntryTable ==
  { << <<"a">>, <<"a">> >>,
    << <<"b">>, <<"b">> >>,
    << <<"a", ":p">>, <<"a">> >>,
    << <<"[", "c", "]", ":p">>, <<"c">> >>,
    << <<"[", "c", "]">>, <<"c">> >>,
    << <<"c0">>, <<"c">> >>,
    << <<"c", "%z">>, <<"c">> >>,
    << <<"c", ":p">>, <<"c", ":p">> >>,
    << <<"w">>, << >> >>,
    << <<"w", ":p">>, << >> >>,
    << <<"a", " ", "b">>, << >> >>,
    << << >>, << >> >> }
Entries == {e[1] : e \in EntryTable}

\* Peer addresses, each with the address it denotes.
RemoteTable ==
  { << <<"a", ":p">>, <<"a">> >>,
    << <<"b">>, <<"b">> >>,
    << <<"[", "c", "]", ":p">>, <<"c">> >>,
    << <<"w", ":p">>, << >> >>,
    << <<"c", "%z", " ", "w">>, << >> >> }
Remotes == {e[1] : e \in RemoteTable}

\* The header value of a chain of entries: "e1, e2, ...".
RECURSIVE Join(_)
Join(es) ==
  IF es = << >> THEN << >>
  ELSE IF Len(es) = 1 THEN es[1]
  ELSE es[1] \o <<",", " ">> \o Join(Tail(es))

Chains(S) == UNION { [1..n -> S] : n \in 0..MaxEntries }
RequestsOf(rs, es) ==
  { [remote |-> r, entries |-> c, hv |-> Join(c)] : r \in rs, c \in Chains(es) }

\* Calls of getClientIP on its own, as the resolver tests make them.
InitResolve ==
  /\ Start
  /\ capacity = RaceCapacity
  /\ maxClients = 0
  /\ watch = {}
  /\ audit = {}
  /\ Tuning
  /\ starts = 0
  /\ cfg = NoCfg
  /\ built = "limiter"
  /\ rateNs = NoRate
  /\ req \in RequestsOf(Remotes, Entries)
  /\ trusted \in BOOLEAN
  /\ clientIP = << >>
  /\ hpc = "recv"
  /\ status = NoResponse

Resolve ==
  /\ built = "limiter"
  /\ hpc = "recv"
  /\ clientIP' = GetClientIP(req, trusted)
  /\ hpc' = "resolved"
  /\ UNCHANGED << now, config, cover, life, visitors, heap, mu, callerVars, sweeperVars, hist, ledger, quiet,
                  cfg, built, rateNs, req, trusted, status >>

NextResolve == Resolve

SpecResolve == InitResolve /\ [][NextResolve]_vars

\* The handler RateLimitMiddleware returns (lines 410-429), one request at a time.
MwRemotes == { <<"a", ":p">>, <<"b">>, <<"w", ":p">> }
MwEntries == { <<"b">>, <<"w">> }

InitMw ==
  /\ Start
  /\ capacity = 0
  /\ maxClients = 0
  /\ watch = {}
  /\ audit = {}
  /\ Tuning
  /\ starts = 0
  /\ cfg \in [rpm : {1}, ctxNil : {FALSE}, maxIps : {0, 1}]
  /\ built = "none"
  /\ rateNs = NoRate
  /\ req = NoReq
  /\ trusted \in BOOLEAN
  /\ clientIP = << >>
  /\ hpc = "none"
  /\ status = NoResponse

\* kit.SendBadRequest(rw, nil) (line 417)
BadRequest == [code |-> 400, retryAfter |-> 0, next |-> 0]

RespondNoRetryAfter(ok) ==
  IF ok
  THEN [code |-> 200, retryAfter |-> 0, next |-> 1]
  ELSE [code |-> 429, retryAfter |-> 0, next |-> 0]
\* Retry-After: 60 and kit.SendTooManyRequests(rw, nil), or next(rw, r), which answers
\* 200 (lines 421-428).
Respond(ok) ==
  IF ok
  THEN [code |-> 200, retryAfter |-> 0, next |-> 1]
  ELSE [code |-> 429, retryAfter |-> 60, next |-> 0]

\* A request reaches the handler.
MwRequest ==
  /\ built = "handler"
  /\ hpc = "idle"
  /\ req' \in RequestsOf(MwRemotes, MwEntries)
  /\ hpc' = "recv"
  /\ clientIP' = << >>
  /\ status' = NoResponse
  /\ UNCHANGED << now, config, cover, life, visitors, heap, mu, callerVars, sweeperVars, hist, ledger, quiet,
                  cfg, built, rateNs, trusted >>

\* clientIP := limiter.getClientIP(r, cfg.TrustedProxyHeader); an empty one is a bad
\* request (lines 411-419).
MwResolve ==
  /\ built = "handler"
  /\ hpc = "recv"
  /\ clientIP' = GetClientIP(req, trusted)
  /\ IF TrimSpace(clientIP') = << >>
     THEN /\ status' = BadRequest
          /\ hpc' = "idle"
     ELSE /\ status' = status
          /\ hpc' = "allow"
  /\ UNCHANGED << now, config, cover, life, visitors, heap, mu, callerVars, sweeperVars, hist, ledger, quiet,
                  cfg, built, rateNs, req, trusted >>

\* limiter.Allow(clientIP) is entered (line 421).
MwAllow(p) ==
  /\ hpc = "allow"
  /\ Call(p, clientIP)

\* Allow has returned: too many requests with Retry-After, or next (lines 421-428).
MwRespond(p) ==
  /\ hpc = "allow"
  /\ pc[p] = "ret"
  /\ status' = Respond(ret[p])
  /\ hpc' = "idle"
  /\ pc' = [pc EXCEPT ![p] = "idle"]
  /\ ip' = [ip EXCEPT ![p] = NoIp]
  /\ ret' = [ret EXCEPT ![p] = FALSE]
  /\ v' = [v EXCEPT ![p] = Nil]
  /\ heap' = Collect(heap, visitors, v', sv)
  /\ hist' = CollectHist(hist, visitors, v', sv)
  /\ ledger' = CollectLedger(ledger, visitors, v', sv)
  /\ UNCHANGED << now, config, cover, life, visitors, mu, sweeperVars, quiet,
                  cfg, built, rateNs, req, trusted, clientIP >>

NextMw ==
  \/ RateLimitMiddleware
  \/ MwRequest
  \/ MwResolve
  \/ \E p \in SeqProcs :
       \/ MwAllow(p)
       \/ FastRead(p)
       \/ SlowLock(p)
       \/ SlowCheck(p)
       \/ VLock(p)
       \/ RefillConsume(p)
       \/ MwRespond(p)
  \/ Advance(MaxTime)

SpecMw == InitMw /\ [][NextMw]_vars

(* ------------------------------ claims -------------------------------- *)
\* A key that is empty or consists only of whitespace.
AllWhitespace(k) == \A i \in 1..Len(k) : k[i] \in Whitespace

\* The caller p takes the refill-and-consume step.
Consumes(p) == pc[p] = "crit" /\ pc'[p] = "ret"

\* C1: the call that creates a key's Visitor returns true, and every further call
\* served by that Visitor at the instant of its creation returns true exactly when
\* fewer than capacity calls have been granted so far: the first capacity
\* consecutive calls return true and the next one false.
C1_MonotonicBudget ==
  [][\A p \in Procs :
       /\ (pc[p] = "slowcheck" /\ visitors'[ip[p]] # visitors[ip[p]])
            => (pc'[p] = "ret" /\ ret'[p])
       /\ (Consumes(p) /\ hist[v[p]].fresh /\ hist[v[p]].callAt = now)
            => (ret'[p] <=> hist[v[p]].granted < capacity)]_vars

\* The call after the capacity-th one at the creation instant has returned false.
C1_Witness ==
  \E p \in Procs :
    /\ pc[p] = "ret" /\ ~ret[p] /\ v[p] # Nil
    /\ hist[v[p]].fresh /\ hist[v[p]].callAt = now
    /\ hist[v[p]].granted = capacity /\ capacity = MaxCapacity

\* C2: the calls one Visitor grants at one instant, whatever idle gap came before,
\* number at most capacity.
C2_BurstAtMostCapacity == \A i \in Vids : hist[i].granted <= capacity

\* C3: with a cap configured the store never holds more than maxClients keys.
C3_StoreWithinCap == maxClients > 0 => Cardinality(StoreKeys) <= maxClients

\* Two callers raced on distinct new keys at the cap: one was rejected.
C3_Witness ==
  /\ maxClients > 0 /\ Cardinality(StoreKeys) = maxClients
  /\ \E p, q \in Procs :
       /\ p # q /\ ip[p] # ip[q]
       /\ pc[p] = "ret" /\ ~ret[p] /\ ~AllWhitespace(ip[p]) /\ visitors[ip[p]] = Nil
       /\ pc[q] = "ret" /\ ret[q] /\ visitors[ip[q]] # Nil

\* C4: at the cap a call on a key not in the store returns false and changes neither
\* the store nor any Visitor; a call on a key in the store goes to that key's Visitor
\* and is decided by the tokens that Visitor holds or has earned.
C4_CapEnforcement ==
  [][\A p \in Procs :
       /\ ( /\ pc[p] = "slowcheck" /\ pc'[p] # "slowcheck" /\ visitors[ip[p]] = Nil
            /\ maxClients > 0 /\ Cardinality(StoreKeys) >= maxClients )
            => (pc'[p] = "ret" /\ ~ret'[p] /\ visitors' = visitors /\ heap' = heap)
       /\ (pc[p] = "fast" /\ pc'[p] # "fast" /\ visitors[ip[p]] # Nil)
            => (pc'[p] = "vlock" /\ v'[p] = visitors[ip[p]])
       /\ Consumes(p)
            => /\ v[p] = visitors[ip[p]]
               /\ ret'[p] <=> (heap[v[p]].tokens > 0 \/ now - heap[v[p]].lastToken >= Rate)
      ]_vars

\* A new key has just been rejected at the cap while another key keeps its tokens.
C4_Witness ==
  /\ maxClients > 0 /\ Cardinality(StoreKeys) = maxClients
  /\ \E p \in Procs :
       /\ pc[p] = "ret" /\ ~ret[p] /\ ~AllWhitespace(ip[p]) /\ visitors[ip[p]] = Nil
       /\ \E b \in StoreKeys : heap[visitors[b]].tokens > 0

\* C5: no step of a call on one key changes the Visitor, the tokens or the
\* lastToken of any other key in the store.
C5_KeyIsolation ==
  [][\A p \in Procs, b \in Inputs :
       (pc'[p] # pc[p] /\ ip'[p] # b /\ visitors[b] # Nil)
         => /\ visitors'[b] = visitors[b]
            /\ heap'[visitors[b]].tokens = heap[visitors[b]].tokens
            /\ heap'[visitors[b]].lastToken = heap[visitors[b]].lastToken]_vars

\* One key is exhausted (its call was refused) while the other still holds its budget.
C5_Witness ==
  \E p \in Procs, b \in StoreKeys :
    /\ pc[p] = "ret" /\ ~ret[p] /\ ip[p] # b /\ visitors[ip[p]] # Nil
    /\ heap[visitors[ip[p]]].tokens = 0
    /\ capacity = MaxCapacity /\ heap[visitors[b]].tokens = capacity - 1

\* C6: a call with an empty or all-whitespace key returns false at once and leaves
\* the store and every Visitor as they were.
C6_BlankKeyRejected ==
  [][\A p \in Procs :
       (pc[p] = "idle" /\ pc'[p] # "idle" /\ AllWhitespace(ip'[p]))
         => (pc'[p] = "ret" /\ ~ret'[p] /\ visitors' = visitors /\ heap' = heap)]_vars

\* A whitespace key has been refused while the store holds a Visitor.
C6_Witness ==
  \E p \in Procs :
    /\ pc[p] = "ret" /\ ~ret[p] /\ ip[p] = <<" ">>
    /\ StoreKeys # {}

\* C7: a call served by a Visitor that the previous call left with 0 tokens, made at
\* least one rate interval after that call, returns true.
C7_RefillAfterExhaustion ==
  [][\A p \in Procs :
       (Consumes(p) /\ heap[v[p]].tokens = 0 /\ now - hist[v[p]].callAt >= Rate)
         => ret'[p]]_vars

\* A bucket of capacity 1 created at 0 has granted its second call at exactly one interval.
C7_Witness ==
  \E p \in Procs :
    /\ pc[p] = "ret" /\ ret[p] /\ v[p] # Nil
    /\ capacity = 1 /\ now = Rate
    /\ ~hist[v[p]].fresh /\ hist[v[p]].callAt = now /\ hist[v[p]].granted = 1
    /\ heap[v[p]].tokens = 0 /\ heap[v[p]].lastToken = Rate

\* C8: after a call granted at some instant left a Visitor with 0 tokens, a call
\* served by that Visitor less than one rate interval later returns false.
C8_NoEarlyRefill ==
  [][\A p \in Procs :
       ( /\ Consumes(p) /\ hist[v[p]].granted > 0 /\ heap[v[p]].tokens = 0
         /\ now - hist[v[p]].callAt < Rate )
         => ~ret'[p]]_vars

\* C8 as amended: a call served by a Visitor holding 0 tokens, made less than one
\* rate interval after that Visitor's lastToken, returns false.
C8_NoEarlyRefillFromLastToken ==
  [][\A p \in Procs :
       (Consumes(p) /\ heap[v[p]].tokens = 0 /\ now - heap[v[p]].lastToken < Rate)
         => ~ret'[p]]_vars

\* A call some time after lastToken, but less than one interval, has been refused.
C8_Witness ==
  \E p \in Procs :
    /\ pc[p] = "ret" /\ ~ret[p] /\ v[p] # Nil
    /\ heap[v[p]].tokens = 0
    /\ now > heap[v[p]].lastToken /\ now - heap[v[p]].lastToken < Rate
    /\ hist[v[p]].callAt = now /\ hist[v[p]].granted = 0

\* C9: when a sweep pass has ended, no key is left in the store that was stale when
\* the tick fired, was in the batch, and had no call during the pass.
C9_StaleEvicted == spc = "wait" => quiet \cap StoreKeys = {}

\* A pass has ended that had such a key in its batch.
C9_Witness == spc = "wait" /\ quiet # {}

\* C10: the sweeper never deletes a Visitor that served a call before the tick and
\* less than staleAfter before it (the tick fired at cutoff + StaleAfter).
C10_RecentSurvives ==
  [][( /\ spc = "delete" /\ Head(batch) \in watch
       /\ visitors[Head(batch)] # Nil /\ visitors'[Head(batch)] = Nil )
       => ~( hist[sv].callAt > cutoff /\ hist[sv].callAt < cutoff + StaleAfter )]_vars

\* C11: however many StartCleanup calls have been made, at most one sweeper has been
\* started, and exactly one once a call has been made.
C11_OneSweeper ==
  /\ started <= 1
  /\ cleanupOnce <=> started = 1
  /\ starts < MaxStarts => started = 1

\* Every StartCleanup call of the run has been made and one sweeper exists.
C11_Witness == MaxStarts >= 2 /\ starts = 0 /\ started = 1 /\ spc # "off"

C13_TerminatesForGood ==
  /\ <>[](ctxDone => spc \in {"off", "stopped"})
  /\ [][spc = "stopped" => (spc' = "stopped" /\ started' = started)]_vars

\* The sweeper has terminated after a cancellation that found it started.
C13_Witness == ctxDone /\ spc = "stopped" /\ started = 1 /\ starts = 0

\* C14: the sweeper begins at most one sweep pass after the cancellation.
C14_OnePassAfterCancel == afterCancel <= 1

\* base-1000 digits of ds * c, least significant digit first in the recursion; the
\* carry of the top digit stays in it.
RECURSIVE MulFrom(_, _, _, _)
MulFrom(ds, i, carry, c) ==
  IF i = 0 THEN << >>
  ELSE LET n == ds[i] * c + carry
       IN  IF i = 1 THEN << n >>
           ELSE MulFrom(ds, i - 1, n \div 1000, c) \o << n % 1000 >>

\* ds + c, for a small c.
RECURSIVE AddFrom(_, _, _)
AddFrom(ds, i, carry) ==
  IF i = 0 THEN << >>
  ELSE LET n == ds[i] + carry
       IN  IF i = 1 THEN << n >>
           ELSE AddFrom(ds, i - 1, n \div 1000) \o << n % 1000 >>

\* xs <= ys for digit sequences of one length.
RECURSIVE LeqFrom(_, _, _)
LeqFrom(xs, ys, i) ==
  IF i > Len(xs) THEN TRUE
  ELSE IF xs[i] # ys[i] THEN xs[i] < ys[i]
  ELSE LeqFrom(xs, ys, i + 1)

\* C15: a limiter built with a non-nil context has capacity 30, 1,000,000 or
\* requestsPerMinute as the claim's three cases say, and a rate r > 0 with
\* r * capacity <= 60s < (r + 1) * capacity.
C15_CapacityAndRate ==
  built = "limiter" =>
    /\ cfg.rpm <= 0 => capacity = 30
    /\ cfg.rpm > 1000000 => capacity = 1000000
    /\ (cfg.rpm > 0 /\ cfg.rpm <= 1000000) => capacity = cfg.rpm
    /\ ~IsZero(rateNs)
    /\ LET prod == MulFrom(rateNs, Len(rateNs), 0, capacity)
       IN  /\ LeqFrom(prod, MinuteNs, 1)
           /\ ~LeqFrom(AddFrom(prod, Len(prod), capacity), MinuteNs, 1)

\* The largest requestsPerMinute has been clamped and still gives a positive rate.
C15_Witness ==
  /\ built = "limiter" /\ cfg.rpm > 1000000
  /\ capacity = 1000000 /\ rateNs = << 0, 0, 60, 0 >>

\* C16: with a nil context both constructors return an error and nothing else: no
\* limiter, no handler, no sweeper; and they return an error in no other case.
C16_NilContextIsError ==
  /\ (cfg.ctxNil /\ built # "none")
       => (built = "error" /\ capacity = 0 /\ hpc = "none"
           /\ spc = "off" /\ started = 0 /\ ~cleanupOnce)
  /\ built = "error" => cfg.ctxNil

\* A construction with a nil context has returned its error.
C16_Witness == cfg.ctxNil /\ built = "error" /\ cfg.rpm > 0

\* The address a header entry, a peer address denotes.
Want(e) == (CHOOSE t \in EntryTable : t[1] = e)[2]
WantRemote(r) == (CHOOSE t \in RemoteTable : t[1] = r)[2]
ValidAt(es) == {i \in 1..Len(es) : Want(es[i]) # << >>}

\* C17: with a trusted header configured and carried by the request, the resolver
\* returns the canonical address of the left-most entry that is a valid IP literal
\* after trimming and port stripping, whatever RemoteAddr is.
C17_LeftmostValidEntry ==
  (hpc = "resolved" /\ trusted /\ req.hv # << >> /\ ValidAt(req.entries) # {})
    => clientIP = Want(req.entries[SetMin(ValidAt(req.entries))])

C17_Witness ==
  /\ hpc = "resolved"
  /\ trusted
  /\ req.entries = << <<"w">>, <<"[", "c", "]", ":p">> >>
  /\ req.remote = <<"a", ":p">>
  /\ clientIP = <<"c">>

\* C18: with a trusted header configured and carried by the request, but no entry of
\* it a valid IP literal, the resolver returns empty and does not fall back to
\* RemoteAddr, even a valid one.
C18_NoFallback ==
  (hpc = "resolved" /\ trusted /\ req.hv # << >> /\ ValidAt(req.entries) = {})
    => clientIP = << >>

C18_Witness ==
  /\ hpc = "resolved"
  /\ trusted
  /\ req.entries = << <<"w">>, <<"a", " ", "b">> >>
  /\ WantRemote(req.remote) = <<"a">>
  /\ clientIP = << >>

\* C20: with no trusted header configured the resolved key is the validated,
\* port-stripped peer address (empty if it is no IP literal), whatever the headers
\* of the request are.
C20_RemoteAddrAlone ==
  (hpc = "resolved" /\ ~trusted) => clientIP = WantRemote(req.remote)

C20_Witness ==
  /\ hpc = "resolved"
  /\ ~trusted
  /\ req.entries = << <<"b">>, <<"c0">> >>
  /\ req.remote = <<"a", ":p">>
  /\ clientIP = <<"a">>

\* C19: a request without the configured trusted header is identified by its
\* RemoteAddr, port stripped: the handler answers it 200 through next while that
\* address is under its limit and 429 with Retry-After 60 once the budget is spent,
\* and does not reject it as unidentified.
C19_AbsentHeaderUsesRemoteAddr ==
  (built = "handler" /\ trusted /\ req.hv = << >> /\ req # NoReq
     /\ WantRemote(req.remote) # << >>)
    => /\ hpc = "allow" => clientIP = WantRemote(req.remote)
       /\ hpc = "idle" => \/ status = [code |-> 200, retryAfter |-> 0, next |-> 1]
                          \/ status = [code |-> 429, retryAfter |-> 60, next |-> 0]

\* C21: the handler ends every request in exactly one of three ways: the key is
\* unresolved and it answers 400 without a call of Allow (store and Visitors
\* untouched) or of next; Allow returned false and it answers 429 with Retry-After 60
\* without a call of next; Allow returned true and it calls next once.
C21_ExactlyOneOutcome ==
  [][/\ (hpc = "recv" /\ hpc' # "recv")
          => IF AllWhitespace(clientIP')
             THEN /\ status' = [code |-> 400, retryAfter |-> 0, next |-> 0]
                  /\ hpc' = "idle"
                  /\ visitors' = visitors /\ heap' = heap /\ pc' = pc
             ELSE status' = NoResponse /\ hpc' = "allow"
     /\ (hpc = "allow" /\ hpc' # "allow")
          => \E p \in Procs :
               /\ pc[p] = "ret" /\ pc'[p] = "idle" /\ ip[p] = clientIP
               /\ hpc' = "idle"
               /\ status' = IF ret[p]
                            THEN [code |-> 200, retryAfter |-> 0, next |-> 1]
                            ELSE [code |-> 429, retryAfter |-> 60, next |-> 0]
     /\ (hpc = "allow" /\ hpc' = "allow") => status' = NoResponse
     /\ (hpc = "idle" /\ hpc' = "idle") => status' = status
    ]_vars

\* A request has been answered 429 with Retry-After 60 and next was not called.
C21_Witness ==
  /\ hpc = "idle"
  /\ status = [code |-> 429, retryAfter |-> 60, next |-> 0]
  /\ clientIP # << >>
  /\ \E k \in StoreKeys : k = clientIP /\ heap[visitors[k]].tokens = 0

\* C22: a handler built from a config whose MaxClientIpsPerMinute is 0 has a limiter
\* without a cap: whatever the number of keys in the store (here up to 1000), the cap
\* test of Allow does not reject a new key.
C22_ZeroMeansNoCap ==
  (built = "handler" /\ cfg.maxIps = 0)
    => \A n \in 0..1000 : ~(maxClients > 0 /\ n >= maxClients)

\* C23: the cap rejects only while the store is full: a call on a key not in the
\* store that finds fewer than maxClients keys in it, as it does once the sweep has
\* removed a stale entry of a full store, creates the key's Visitor and returns true.
C23_AdmittedAfterEviction ==
  [][\A p \in Procs :
       ( /\ pc[p] = "slowcheck" /\ pc'[p] # "slowcheck" /\ visitors[ip[p]] = Nil
         /\ maxClients > 0 /\ Cardinality(StoreKeys) < maxClients )
         => /\ visitors'[ip[p]] # Nil
            /\ v'[p] = visitors'[ip[p]]
            /\ heap'[v'[p]].tokens = capacity - 1
            /\ pc'[p] = "ret" /\ ret'[p]]_vars

\* The store was full with one key at the tick, the pass removed that key as stale,
\* and the call on another key has then created its Visitor and returned true.
C23_Witness ==
  /\ maxClients = 1
  /\ spc = "wait" /\ <<"b">> \in quiet /\ visitors[<<"b">>] = Nil
  /\ \E p \in Procs :
       /\ pc[p] = "ret" /\ ret[p] /\ ip[p] = <<"a">>
       /\ v[p] # Nil /\ visitors[<<"a">>] = v[p]
       /\ hist[v[p]].fresh /\ hist[v[p]].callAt = now /\ hist[v[p]].granted = 1

\* C24: every Visitor, stored or still held by a caller or by the sweeper, has
\* 0 <= tokens <= capacity, in every state of every interleaving of concurrent calls
\* and sweeper steps.
C24_TokensInRange ==
  \A i \in Refs(visitors, v, sv) : heap[i].tokens >= 0 /\ heap[i].tokens <= capacity

\* A call has been refused on a Visitor at 0 tokens while the other caller waits for
\* that Visitor's lock and the sweeper is in a pass.
C24_Witness ==
  /\ capacity = MaxCapacity
  /\ spc \notin {"off", "wait"}
  /\ \E p, q \in Procs :
       /\ p # q
       /\ pc[p] = "ret" /\ ~ret[p] /\ v[p] # Nil /\ heap[v[p]].tokens = 0
       /\ pc[q] = "vlock" /\ v[q] = v[p]

\* C25: the calls a Visitor created at t0 has granted up to now number at most
\* capacity + floor((now - t0) / rate), under every interleaving of the callers.
C25_TokenBucketBound ==
  \A k \in StoreKeys \cap audit :
    ledger[visitors[k]].total
      <= capacity + (now - ledger[visitors[k]].born) \div Rate

\* The bound is met with equality two intervals after the creation, the last two
\* grants going to the two callers at one instant.
C25_Witness ==
  /\ capacity = MaxCapacity
  /\ \E k \in StoreKeys \cap audit :
       /\ now - ledger[visitors[k]].born >= 2 * Rate
       /\ ledger[visitors[k]].total = capacity + (now - ledger[visitors[k]].born) \div Rate
       /\ \A p \in Procs : pc[p] = "ret" /\ ret[p] /\ v[p] = visitors[k]

\* C26: a call in its refill-and-consume step runs it on the Visitor the store holds
\* for its key, and no two calls on one key are in that step at once, also while the
\* sweeper evicts the key.
C26_OneVisitorPerKey ==
  /\ \A p \in Procs : pc[p] = "crit" => v[p] = visitors[ip[p]]
  /\ \A p, q \in Procs : (p # q /\ ip[p] = ip[q]) => ~(pc[p] = "crit" /\ pc[q] = "crit")

\* C27: of the calls served at one instant by an existing Visitor that held t tokens
\* after the refill of the first of them, exactly min(k, t) are granted, k being
\* their number, and the Visitor is left with t - min(k, t) tokens.
C27_NoDoubleSpend ==
  \A k \in StoreKeys \cap audit :
    LET l == ledger[visitors[k]]
        m == IF l.served < l.tok0 THEN l.served ELSE l.tok0
    IN  l.served > 0 => (l.won = m /\ heap[visitors[k]].tokens = l.tok0 - m)

\* C28: of the calls racing on a key without a Visitor one creates and inserts it,
\* returns true and leaves it capacity - 1 tokens; a stored Visitor is never replaced
\* by another; every other call consumes from the stored Visitor; and the calls
\* granted at the instant of the creation, the creating one included, number at most
\* capacity.
C28_DoubleCheckedCreation ==
  [][/\ \A k \in Inputs : visitors[k] # Nil => visitors'[k] \in {visitors[k], Nil}
     /\ \A p \in Procs :
          /\ (pc[p] = "slowcheck" /\ visitors'[ip[p]] # visitors[ip[p]])
               => /\ visitors[ip[p]] = Nil
                  /\ pc'[p] = "ret" /\ ret'[p]
                  /\ heap'[visitors'[ip[p]]].tokens = capacity - 1
          /\ Consumes(p)
               => /\ v[p] = visitors[ip[p]]
                  /\ (hist'[v[p]].fresh /\ hist'[v[p]].callAt = now)
                       => hist'[v[p]].granted <= capacity
    ]_vars

\* One caller has created the Visitor and returned true with the last token; the
\* other, which missed on the fast path, holds the write lock for its double check.
C28_Witness ==
  \E p, q \in Procs :
    /\ p # q /\ ip[p] = ip[q]
    /\ pc[q] = "slowcheck" /\ mu = q /\ visitors[ip[q]] # Nil
    /\ pc[p] = "ret" /\ ret[p] /\ v[p] = visitors[ip[q]]
    /\ hist[v[p]].fresh /\ hist[v[p]].callAt = now /\ hist[v[p]].granted = 1
    /\ capacity = 1 /\ heap[v[p]].tokens = 0

\* C29: the refill of a call on an existing Visitor adds k = min(floor(elapsed /
\* rate), capacity) tokens, clamps the tokens to capacity, and moves lastToken on by
\* exactly k * rate; when floor(elapsed / rate) <= capacity the time left between
\* lastToken and now is elapsed mod rate.
C29_RefillStep ==
  [][\A p \in Procs :
       Consumes(p) =>
         LET old     == heap[v[p]]
             new     == heap'[v[p]]
             elapsed == now - old.lastToken
             q       == elapsed \div Rate
             k       == IF q > capacity THEN capacity ELSE q
             filled  == IF old.tokens + k > capacity THEN capacity ELSE old.tokens + k
         IN  /\ elapsed >= 0
             /\ new.lastToken = old.lastToken + k * Rate
             /\ new.tokens + (IF ret'[p] THEN 1 ELSE 0) = filled
             /\ q <= capacity => now - new.lastToken = elapsed % Rate]_vars

\* A call one unit after a whole interval has been granted the refilled token, and
\* lastToken stands at the interval's end, the unit still to be accounted for.
C29_Witness ==
  \E p \in Procs :
    /\ pc[p] = "ret" /\ ret[p] /\ v[p] # Nil
    /\ capacity = 1 /\ now = Rate + 1
    /\ heap[v[p]].lastToken = Rate /\ heap[v[p]].tokens = 0

\* C30: no step moves the lastToken of a Visitor backwards, and lastToken never lies
\* after the current time.
C30_LastTokenMonotonic ==
  [][\A i \in Refs(visitors, v, sv) \cap Refs(visitors', v', sv') :
       /\ heap'[i].lastToken >= heap[i].lastToken
       /\ heap'[i].lastToken <= now']_vars

\* A Visitor created earlier has had its lastToken moved by refills up to the clock.
C30_Witness ==
  /\ now = 2 * Rate
  /\ \E k \in StoreKeys :
       /\ heap[visitors[k]].lastToken = now
       /\ ~hist[visitors[k]].fresh
       /\ hist[visitors[k]].callAt = now

\* C31: a key leaves the store only in the sweeper's delete step, taken while the
\* sweeper holds the store's write lock and takes the free lock of the key's Visitor,
\* and only if that Visitor's lastToken, read in that step, is before the cutoff of
\* the tick; a Visitor whose lastToken has reached the cutoff since the first
\* staleness read stays.
C31_EvictionDoubleCheck ==
  [][\A k \in Inputs :
       /\ (visitors[k] # Nil /\ visitors'[k] = Nil)
            => /\ spc = "delete" /\ mu = Sweeper /\ Head(batch) = k
               /\ sv = visitors[k]
               /\ heap[visitors[k]].mu = None
               /\ heap[visitors[k]].lastToken < cutoff
       /\ ( /\ spc = "delete" /\ spc' # "delete" /\ Head(batch) = k
            /\ visitors[k] # Nil /\ heap[visitors[k]].lastToken >= cutoff )
            => visitors'[k] = visitors[k]]_vars

\* The sweeper found the Visitor stale and holds the write lock for the deletion, and
\* a call has meanwhile moved the Visitor's lastToken to the cutoff or past it.
C31_Witness ==
  /\ spc = "delete" /\ mu = Sweeper
  /\ visitors[Head(batch)] = sv
  /\ heap[sv].mu = None
  /\ heap[sv].lastToken >= cutoff
  /\ \E p \in Procs : pc[p] = "ret" /\ ret[p] /\ v[p] = sv

\* C32: when the stale duration is at least capacity refill intervals, every Visitor
\* the sweeper deletes would by then have refilled to a full bucket
\* (tokens + floor((now - lastToken) / rate) >= capacity), so a call on the kept
\* Visitor at that instant would be granted and leave at least the tokens that the
\* Visitor created anew after the eviction starts with.
LongEnough == visitorStaleAfter >= capacity * Rate

C32_EvictedWouldBeFull ==
  [][\A k \in Inputs :
       (visitors[k] # Nil /\ visitors'[k] = Nil /\ LongEnough)
         => LET vis == heap[visitors[k]] IN
            /\ vis.tokens + ((now - vis.lastToken) \div Rate) >= capacity
            /\ Refill(vis, now, Rate, capacity).ok
            /\ NewVisitorTokens(capacity) <= Refill(vis, now, Rate, capacity).tokens]_vars

\* The sweeper is about to delete a Visitor of a limiter of the largest capacity whose
\* bucket was left empty, under a stale duration of capacity refill intervals.
C32_Witness ==
  /\ spc = "delete" /\ mu = Sweeper
  /\ visitors[Head(batch)] = sv
  /\ heap[sv].mu = None
  /\ heap[sv].lastToken < cutoff
  /\ LongEnough
  /\ capacity = MaxCapacity
  /\ heap[sv].tokens = 0

\* C33 as stated: on a snapshot of n >= 1 keys the sweeper takes exactly
\* min(cleanupBatchSize, n) keys, the contiguous run from cleanupCursor mod n that
\* wraps around the end of the snapshot, and sets cleanupCursor to
\* (start + number taken) mod n.
MinOf(a, b) == IF a < b THEN a ELSE b

C33_BatchWraps ==
  [][(spc = "select" /\ spc' = "picked")
       => LET n     == Len(batch)
              start == cleanupCursor % n
              cnt   == MinOf(cleanupBatchSize, n)
          IN  /\ batch' = [i \in 1..cnt |-> batch[((start + i - 1) % n) + 1]]
              /\ cleanupCursor' = (start + cnt) % n]_vars

\* C33 amended: the sweeper takes min(cleanupBatchSize, n - start) keys, the
\* contiguous run from start = cleanupCursor mod n that stops at the end of the
\* snapshot without wrapping, and sets cleanupCursor to (start + number taken) mod n.
C33_BatchToEnd ==
  [][(spc = "select" /\ spc' = "picked")
       => LET n     == Len(batch)
              start == cleanupCursor % n
              cnt   == MinOf(cleanupBatchSize, n - start)
          IN  /\ batch' = [i \in 1..cnt |-> batch[start + i]]
              /\ cleanupCursor' = (start + cnt) % n]_vars

\* A batch was cut short at the end of a snapshot that holds at least
\* cleanupBatchSize keys; the cursor is back at the start.
C33_Witness ==
  /\ spc = "picked"
  /\ Cardinality(cover.keys) >= cleanupBatchSize
  /\ cover.seen = SeqToSet(batch)
  /\ batch # << >>
  /\ Len(batch) < cleanupBatchSize
  /\ cleanupCursor = 0

\* C34: round-robin coverage.  While the sweeper runs and the key set of the store
\* does not change, every key is in the batch of at least one of
\* ceil(n / cleanupBatchSize) consecutive ticks (so a Visitor that stays stale is
\* eventually found and removed).
C34_RoundCoversAllKeys ==
  ( /\ cover.on
    /\ cover.keys # {}
    /\ cover.ticks >= RoundTicks(cover.keys, cleanupBatchSize) )
  => cover.seen = cover.keys

\* C35: lock ordering.  An Allow call never holds the store lock and a Visitor lock
\* together: the holder of the write lock is at the double check and holds no Visitor
\* lock, the holder of a Visitor lock is in its refill-and-consume section, which
\* takes no further lock.  The sweeper holds the store lock only in its delete step,
\* where it takes the Visitor lock after it.  No lock is held by a task that waits:
\* the holder of each held lock can take its next step, the sweeper's as soon as the
\* Visitor lock it asks for is released by a holder that can.
C35_LockOrder ==
  /\ \A p \in Procs :
       mu = p => /\ pc[p] = "slowcheck"
                 /\ \A i \in Vids : heap[i].mu # p
                 /\ ENABLED SlowCheck(p)
  /\ \A i \in Vids :
       heap[i].mu # None
         => /\ heap[i].mu \in Procs
            /\ pc[heap[i].mu] = "crit"
            /\ v[heap[i].mu] = i
            /\ mu # heap[i].mu
            /\ ENABLED RefillConsume(heap[i].mu)
  /\ mu = Sweeper
       => /\ spc = "delete"
          /\ sv # Nil
          /\ heap[sv].mu = None => ENABLED Delete
  /\ \A p \in Procs : pc[p] \in {"fast", "slow", "vlock"} => mu # p

\* The sweeper holds the store lock and asks for the lock of a Visitor that one
\* caller holds, while the other caller waits for the store lock.
C35_Witness ==
  /\ mu = Sweeper /\ spc = "delete"
  /\ heap[sv].mu \in Procs
  /\ \E q \in Procs : q # heap[sv].mu /\ pc[q] \in {"fast", "slow"}

\* C36: data-race freedom.  A step that changes tokens or lastToken of a Visitor that
\* is and stays in the store is taken by the caller holding that Visitor's lock; the
\* sweeper reads lastToken only in steps that take the Visitor's free lock; the map
\* changes only in a step of the task holding the store's write lock; the map is
\* looked up or iterated only by the holder of the write lock or while no task holds
\* it, when the read lock is granted.
C36_LockedAccess ==
  [][/\ \A k \in Inputs :
          LET i == visitors[k] IN
          ( /\ i # Nil /\ visitors'[k] = i
            /\ \/ heap'[i].tokens # heap[i].tokens
               \/ heap'[i].lastToken # heap[i].lastToken )
            => /\ heap[i].mu \in Procs
               /\ pc[heap[i].mu] = "crit" /\ pc'[heap[i].mu] = "ret"
               /\ v[heap[i].mu] = i
     /\ (spc \in {"peek", "delete"} /\ spc' # spc) => (sv # Nil /\ heap[sv].mu = None)
     /\ \A k \in Inputs :
          visitors'[k] # visitors[k]
            => \/ /\ visitors[k] = Nil
                  /\ mu \in Procs /\ pc[mu] = "slowcheck" /\ ip[mu] = k
               \/ /\ visitors'[k] = Nil
                  /\ mu = Sweeper /\ spc = "delete" /\ Head(batch) = k
     /\ \A p \in Procs :
          /\ (pc[p] = "fast" /\ pc'[p] # "fast") => mu = None
          /\ (pc[p] = "slowcheck" /\ pc'[p] # "slowcheck") => mu = p
     /\ (spc \in {"snap", "lookup", "dellock"} /\ spc' # spc) => mu = None]_vars

\* One caller holds the lock of the stored Visitor and is about to refill it, while
\* the sweeper waits for that lock to read lastToken and the other caller waits for
\* it too.
C36_Witness ==
  /\ spc = "peek"
  /\ visitors[Head(batch)] = sv
  /\ heap[sv].mu \in Procs
  /\ pc[heap[sv].mu] = "crit"
  /\ \E q \in Procs : q # heap[sv].mu /\ pc[q] = "vlock" /\ v[q] = sv

\* C37: under fair scheduling every Allow call returns: a caller that has entered
\* Allow reaches its return, whatever the other caller and the sweeper do; no call
\* waits for a lock for ever.
C37_AllowReturns ==
  \A p \in Procs : (pc[p] # "idle") ~> (pc[p] = "ret")

\* One call has returned while the other still waits for the Visitor's lock and the
\* sweeper, holding the store's write lock, waits for it too.
C37_Witness ==
  /\ mu = Sweeper /\ spc = "delete"
  /\ \E p \in Procs : /\ pc[p] = "ret" /\ ret[p] /\ v[p] = sv
                      /\ \E q \in Procs : q # p /\ pc[q] = "vlock" /\ v[q] = sv

\* C38: the frame of a refusal.  An Allow call that reaches an existing Visitor and
\* returns false leaves that Visitor with the 0 tokens and the lastToken it had, and
\* leaves the key set of the store as it was.
C38_RefusalChangesNothing ==
  [][\A p \in Procs :
       (Consumes(p) /\ ~ret'[p])
         => /\ heap[v[p]].tokens = 0
            /\ heap'[v[p]].tokens = 0
            /\ heap'[v[p]].lastToken = heap[v[p]].lastToken
            /\ visitors' = visitors]_vars

\* A call was refused on a stored Visitor later than the Visitor's last refill and
\* sooner than one refill interval after it.
C38_Witness ==
  \E p \in Procs :
    /\ pc[p] = "ret" /\ ~ret[p]
    /\ v[p] # Nil /\ visitors[ip[p]] = v[p]
    /\ heap[v[p]].tokens = 0
    /\ heap[v[p]].lastToken < now

====
